---- MODULE Spec2Model ----
(***************************************************************************)
(* Model of the concurrent fetch-and-retry pipeline of the butterfly and   *)
(* moth sighting scraper (src/src/scraper.rs, src/src/main.rs).            *)
(*                                                                         *)
(* The futures built by scrape_multiple_sightings are not spawned: they    *)
(* are polled by join_all inside the caller's task, so a future runs       *)
(* without interruption from one .await to the next.  Each action below is *)
(* one such stretch of code.                                               *)
(***************************************************************************)
EXTENDS Integers, Sequences, FiniteSets, TLC

\* ------------------------------------------------------------------ bounds
\* Longest identifier list handed to scrape_multiple_sightings.
MaxIds == 2
\* max_retries ranges over 0..MaxRetries where one worker is followed.
MaxRetries == 3
\* max_concurrent ranges over 0..MaxConcurrent.
MaxConcurrent == 2
\* Longest record list handed to get_failed_ids.
MaxRecords == 2
\* Longest ledger file where every content of the file is tried.
MaxLines == 2

\* Configured base delays in milliseconds (--delay).
BaseDelays == {0, 1, 2}

\* ----------------------------------------------------------------- values
\* Option<T>
None == <<>>
Some(x) == <<x>>

Identifiers == {1, 2}

\* max_retries where several workers run side by side.
PipelineRetries == {0, 1}

\* All sequences over S of length at most n.
SeqsUpTo(S, n) == UNION {[1..k -> S] : k \in 0..n}

\* A line of the missing-sightings file is the text of an integer; the text
\* of a negative integer is not a u64.
Malformed == -1

\* A line whose read fails: the bytes are not UTF-8, or the read returns an
\* I/O error.
Unreadable == -2

\* What one line of a ledger file can be.
LineValues == Identifiers \cup {Malformed, Unreadable}

\* Ledger files found at startup (a file that does not exist loads like an
\* empty one).
LedgerFiles == {<<>>, <<1>>, <<2, 1>>, <<1, Malformed, 1>>}

\* What the remote server can answer to one request.
TransportError == [kind |-> "error", status |-> 0, body |-> "none"]
NoResponse == [kind |-> "none", status |-> 0, body |-> "none"]
Http(s, b) == [kind |-> "http", status |-> s, body |-> b]
Statuses == {200, 299, 300, 404, 429}
\* The body of a success response: one with a views-row, one without, and
\* one whose read fails.
Bodies == {"record", "no_rows", "unreadable"}
ResponsesWith(statuses) ==
    {TransportError}
        \cup {Http(s, "none") : s \in {x \in statuses : x < 200 \/ x > 299}}
        \cup {Http(s, b) : s \in {x \in statuses : x >= 200 /\ x <= 299},
                           b \in Bodies}
Responses == ResponsesWith(Statuses)

VARIABLES
    base_delay,             \* ButterflyMothScraper.base_delay, in ms
    max_retries,            \* ButterflyMothScraper.max_retries
    max_concurrent,         \* scrape_multiple_sightings' max_concurrent
    missing_sightings,      \* the in-memory ledger (a Vec<u64>)
    missing_sightings_file, \* Option<String>: None or Some(name)
    file,                   \* the lines of the ledger file
    loaded,                 \* what startup found: entries pushed, lines read
    server,                 \* identifier -> the responses the server may give
    sighting_ids,           \* the identifiers handed to the run
    run,                    \* "ready", "joining", "returned" or "panicked"
    tasks,                  \* the futures handed to join_all, in order
    permits,                \* free permits of the semaphore
    progress,               \* position of the progress bar
    finished,               \* task indexes in the order the tasks completed
    snapshot,               \* what get_missing_sightings returned last
    records,                \* what scrape_multiple_sightings returned
    failed_ids              \* what get_failed_ids returned

vars == <<base_delay, max_retries, max_concurrent, missing_sightings,
          missing_sightings_file, file, loaded, server, sighting_ids, run,
          tasks, permits, progress, finished, snapshot, records,
          failed_ids>>

\* ------------------------------------------------------------ the ledger
Contains(list, id) == \E i \in 1..Len(list) : list[i] = id

NoDuplicates(list) ==
    \A i, j \in 1..Len(list) : list[i] = list[j] => i = j

\* line.trim().parse::<u64>()
ParseU64(line) == IF line >= 0 THEN Some(line) ELSE None

\* load_missing_sightings: the lines are read in order; a line whose read
\* fails ends the load with Err (what was pushed before it stays), every
\* line that parses is pushed, the others are skipped.
RECURSIVE LoadMissingSightings(_)
LoadMissingSightings(lines) ==
    IF lines = <<>> THEN [list |-> <<>>, result |-> "Ok"]
    ELSE IF Head(lines) = Unreadable THEN [list |-> <<>>, result |-> "Err"]
    ELSE LET parsed == ParseU64(Head(lines))
             rest == LoadMissingSightings(Tail(lines))
         IN  [list |-> (IF parsed # None THEN <<parsed[1]>> ELSE <<>>)
                           \o rest.list,
              result |-> rest.result]

ClearMissingSightingsAndFile(list, lines) == [list |-> <<>>, file |-> <<>>]

\* clear_missing_sightings: the in-memory list is emptied; the new ledger
\* and the file.
ClearMissingSightings(list, lines) == [list |-> <<>>, file |-> lines]

\* get_missing_sightings: a clone of the in-memory list.
GetMissingSightings(list) == list

FilterMissingSightingsInverted(ids, list) ==
    LET missing_set == {list[i] : i \in 1..Len(list)}
        Keep(id) == id \in missing_set
    IN  SelectSeq(ids, Keep)

\* filter_missing_sightings
FilterMissingSightings(ids, list) ==
    LET missing_set == {list[i] : i \in 1..Len(list)}
        Keep(id) == id \notin missing_set
    IN  SelectSeq(ids, Keep)

\* append_missing_sighting_to_file: one line at the end, or an I/O error
\* that leaves the file as it was.
AppendMissingSightingToFile(lines, id, io_ok) ==
    IF io_ok THEN Append(lines, id) ELSE lines

AddMissingSightingNoCheck(list, lines, configured, id, io_ok) ==
    [list |-> Append(list, id),
     file |-> IF configured # None
              THEN AppendMissingSightingToFile(lines, id, io_ok)
              ELSE lines]

AddMissingSightingAppendFirst(list, lines, configured, id, io_ok) ==
    [list |-> IF ~Contains(list, id) THEN Append(list, id) ELSE list,
     file |-> IF configured # None
              THEN AppendMissingSightingToFile(lines, id, io_ok)
              ELSE lines]

\* add_missing_sighting, run under the ledger's mutex: the new ledger and
\* the new file.
AddMissingSighting(list, lines, configured, id, io_ok) ==
    IF ~Contains(list, id)
    THEN [list |-> Append(list, id),
          file |-> IF configured # None
                   THEN AppendMissingSightingToFile(lines, id, io_ok)
                   ELSE lines]
    ELSE [list |-> list, file |-> lines]

\* ---------------------------------------------------------------- Init
InitFrom(idLists, files, retries, concurrents, delays, srv) ==
    /\ base_delay \in delays
    /\ max_retries \in retries
    /\ max_concurrent \in concurrents
    /\ \E f \in files, configured \in {None, Some("missing.txt")} :
          /\ configured = None => f = <<>>
          /\ missing_sightings_file = configured
          /\ file = f
          /\ LET load == IF configured # None
                          THEN LoadMissingSightings(f)
                          ELSE [list |-> <<>>, result |-> "Ok"]
             IN  /\ missing_sightings = load.list
                 /\ loaded = [entries |-> Len(load.list), lines |-> Len(f),
                              result |-> load.result]
    /\ server = srv
    /\ sighting_ids \in idLists
    /\ run = "ready"
    /\ tasks = <<>>
    /\ permits = 0
    /\ progress = 0
    /\ finished = <<>>
    /\ snapshot = <<>>
    /\ records = <<>>
    /\ failed_ids = <<>>

\* A server that may answer anything to any request.
AnyServer == [i \in Identifiers |-> Responses]

\* A server that may answer any request with a transport error, a page
\* (200), not found (404) or rate limited (429).
PipelineServer == [i \in Identifiers |-> ResponsesWith({200, 404, 429})]

Init ==
    InitFrom(SeqsUpTo(Identifiers, MaxIds), LedgerFiles, PipelineRetries,
             0..MaxConcurrent, BaseDelays, PipelineServer)

\* One or two workers, every retry budget up to MaxRetries.
InitWorker ==
    InitFrom({<<1>>, <<2, 1>>}, {<<>>}, 0..MaxRetries, {1, 2}, BaseDelays,
             AnyServer)

\* ------------------------------------------------------------ the records
\* format!("https://www.butterfliesandmoths.org/sighting_details/{}", id)
Url(id) == <<"sighting_details", id>>

\* parse_html_to_record: a default record filled from the first views-row,
\* or None when the page has none.  The identifier and the URL are not set
\* by the extractor.
ParseHtmlToRecord(html) ==
    IF html = "record" THEN Some([sighting_id |-> None, url |-> None]) ELSE None

\* --------------------------------------------------------------- the tasks
NewTask(id, admitted) ==
    [id |-> id,
     pc |-> IF admitted THEN "admitted" ELSE "waiting",
     attempt |-> 0,          \* the loop variable of scrape_sighting_page
     sleep_ms |-> 0,         \* the delay being slept
     fetches |-> 0,          \* requests sent for this task
     last |-> NoResponse,    \* the response in hand, kept once returned
     exit |-> "running",     \* the return statement taken
     adds |-> 0,             \* calls of add_missing_sighting
     result |-> None]

TaskIndexes == 1..Len(tasks)

\* A task holds a permit from the moment the semaphore hands it one until
\* the future completes and _permit is dropped.
HoldsPermit(task) == task.pc \in {"admitted", "sleeping", "fetching", "reading"}

Active == {t \in TaskIndexes : HoldsPermit(tasks[t])}

Waiting(ts) == {t \in 1..Len(ts) : ts[t].pc = "waiting"}

AdmittedAtStartOneMore(t, limit) == t <= limit + 1

AdmittedAtStartAtLeastOne(t, limit) == t <= limit \/ t = 1

\* Semaphore::new(max_concurrent), then the first poll of join_all: the
\* futures call acquire() in order, and the semaphore serves the first
\* max_concurrent of them.
AdmittedAtStart(t, limit) == t <= limit

\* Dropping _permit: the semaphore is fair, a released permit goes to the
\* longest-waiting acquire() if there is one.
HandOver(ts) ==
    IF Waiting(ts) = {} THEN ts
    ELSE LET next == CHOOSE t \in Waiting(ts) : \A u \in Waiting(ts) : t <= u
         IN  [ts EXCEPT ![next] = [@ EXCEPT !.pc = "admitted"]]

PermitsAfterDrop(ts, free) == IF Waiting(ts) = {} THEN free + 1 ELSE free

\* ------------------------------------------------------------- the delays
RECURSIVE Pow2(_)
Pow2(k) == IF k = 0 THEN 1 ELSE 2 * Pow2(k - 1)

\* The range handed to random_range: 0..base_delay/2 before the first
\* attempt, 0..base_delay before a retry (upper end excluded).
JitterRange(attempt) ==
    IF attempt > 0 THEN 0..(base_delay - 1) ELSE 0..((base_delay \div 2) - 1)

DelayMs(attempt, jitter) ==
    IF attempt > 0 THEN Pow2(attempt) * base_delay + jitter
    ELSE base_delay + jitter

\* ------------------------------------------------------ the retry protocol
\* 200..=299
IsSuccessStatus(status) == status >= 200 /\ status <= 299

AttemptsRemainOneLess(attempt) == attempt + 1 < max_retries

AttemptsRemainInclusive(attempt) == attempt <= max_retries

\* `if attempt < self.max_retries` of the three transient branches
AttemptsRemain(attempt) == attempt < max_retries

\* `for attempt in 0..=self.max_retries`: whether the loop has a next round
LoopContinues(attempt) == attempt + 1 <= max_retries

\* The return statement a transient outcome leads to once no attempt remains.
TransientExit(resp) ==
    IF resp.kind = "error" THEN "request_failed"
    ELSE IF resp.status = 429 THEN "rate_limited"
    ELSE "http_error"

\* results.into_iter().filter_map(|r| r).collect()
RECURSIVE CollectRecords(_)
CollectRecords(results) ==
    IF results = <<>> THEN <<>>
    ELSE (IF Head(results) # None THEN <<Head(results)[1]>> ELSE <<>>)
             \o CollectRecords(Tail(results))

JoinAllAsCompleted(ts, order) == [i \in 1..Len(order) |-> ts[order[i]].result]

\* join_all: the outputs of the futures, in the order of the futures
\* (order: the order in which they completed, which join_all does not use).
JoinAll(ts, order) == [t \in 1..Len(ts) |-> ts[t].result]

GetFailedIdsInverted(original_ids, scraped_records) ==
    LET scraped_ids ==
            {scraped_records[i].sighting_id[1] :
                i \in {k \in 1..Len(scraped_records) :
                          scraped_records[k].sighting_id # None}}
        Failed(id) == id \in scraped_ids
    IN  SelectSeq(original_ids, Failed)

\* get_failed_ids
GetFailedIds(original_ids, scraped_records) ==
    LET scraped_ids ==
            {scraped_records[i].sighting_id[1] :
                i \in {k \in 1..Len(scraped_records) :
                          scraped_records[k].sighting_id # None}}
        Failed(id) == id \notin scraped_ids
    IN  SelectSeq(original_ids, Failed)

\* ---------------------------------------------------------------- actions
\* scrape_multiple_sightings up to the first poll of join_all.
Start ==
    /\ run = "ready"
    /\ LET filtered_sightings_ids ==
               FilterMissingSightings(sighting_ids, missing_sightings)
           n == Len(filtered_sightings_ids)
       IN  /\ tasks' = [t \in 1..n |->
                           NewTask(filtered_sightings_ids[t],
                                   AdmittedAtStart(t, max_concurrent))]
           /\ permits' = max_concurrent
                           - Cardinality({t \in 1..n :
                                            AdmittedAtStart(t, max_concurrent)})
    /\ run' = "joining"
    /\ progress' = 0
    /\ UNCHANGED <<base_delay, max_retries, max_concurrent, missing_sightings,
                   missing_sightings_file, file, loaded, server, sighting_ids,
                   finished, records, failed_ids, snapshot>>

\* random_range panics on an empty range; the panic unwinds through
\* join_all and scrape_multiple_sightings and ends the process.
Panic ==
    /\ run' = "panicked"
    /\ UNCHANGED <<base_delay, max_retries, max_concurrent, missing_sightings,
                   missing_sightings_file, file, loaded, server, sighting_ids,
                   tasks, permits, progress, finished, records, failed_ids,
                   snapshot>>

\* The top of the loop body for round k: compute the delay and sleep.
SleepBefore(t, k) ==
    IF JitterRange(k) = {} THEN Panic
    ELSE /\ \E jitter \in JitterRange(k) :
               tasks' = [tasks EXCEPT ![t] =
                           [@ EXCEPT !.pc = "sleeping", !.attempt = k,
                                     !.sleep_ms = DelayMs(k, jitter),
                                     !.last = NoResponse]]
         /\ UNCHANGED <<base_delay, max_retries, max_concurrent,
                        missing_sightings, missing_sightings_file, file, loaded,
                        server, sighting_ids, run, permits, progress, finished,
                        records, failed_ids, snapshot>>

ProgressIncOnRecord(pos, result) == IF result # None THEN pos + 1 ELSE pos

\* progress.inc(1), whatever scrape_sighting_page returned.
ProgressInc(pos, result) == pos + 1

\* A return of scrape_sighting_page followed by the rest of the task:
\* progress.inc(1), and the permit is dropped.
Return(t, resp, result, exit, add, io_ok) ==
    LET id == tasks[t].id
        ledger == IF add
                  THEN AddMissingSighting(missing_sightings, file,
                                          missing_sightings_file, id, io_ok)
                  ELSE [list |-> missing_sightings, file |-> file]
        done == [tasks EXCEPT ![t] =
                    [@ EXCEPT !.pc = "done", !.exit = exit, !.result = result,
                              !.last = resp,
                              !.adds = @ + (IF add THEN 1 ELSE 0)]]
    IN  /\ missing_sightings' = ledger.list
        /\ file' = ledger.file
        /\ tasks' = HandOver(done)
        /\ permits' = PermitsAfterDrop(done, permits)
        /\ progress' = ProgressInc(progress, result)
        /\ finished' = Append(finished, t)
        /\ UNCHANGED <<base_delay, max_retries, max_concurrent,
                       missing_sightings_file, loaded, server, sighting_ids,
                       run, records, failed_ids, snapshot>>

\* `continue`: the next round of the loop, or the code after the loop.
Continue(t, resp) ==
    IF LoopContinues(tasks[t].attempt)
    THEN SleepBefore(t, tasks[t].attempt + 1)
    ELSE \E io_ok \in BOOLEAN :
            Return(t, resp, None, "after_loop", TRUE, io_ok)

\* The task is polled with its permit: scrape_sighting_page starts.
Begin(t) ==
    /\ run = "joining"
    /\ tasks[t].pc = "admitted"
    /\ SleepBefore(t, 0)

\* The sleep is over: the request is sent.
Send(t) ==
    /\ run = "joining"
    /\ tasks[t].pc = "sleeping"
    /\ tasks' = [tasks EXCEPT ![t] =
                    [@ EXCEPT !.pc = "fetching", !.sleep_ms = 0,
                              !.fetches = @ + 1]]
    /\ UNCHANGED <<base_delay, max_retries, max_concurrent, missing_sightings,
                   missing_sightings_file, file, loaded, server, sighting_ids,
                   run, permits, progress, finished, records, failed_ids,
                   snapshot>>

\* send().await is over: the match on the result and on the status.
Respond(t) ==
    /\ run = "joining"
    /\ tasks[t].pc = "fetching"
    /\ \E resp \in server[tasks[t].id] :
          IF resp.kind = "http" /\ IsSuccessStatus(resp.status)
          THEN /\ tasks' = [tasks EXCEPT ![t] =
                              [@ EXCEPT !.pc = "reading",
                                        !.last = Http(resp.status, "unread")]]
               /\ UNCHANGED <<base_delay, max_retries, max_concurrent,
                              missing_sightings, missing_sightings_file, file,
                              loaded, server, sighting_ids, run, permits,
                              progress, finished, records, failed_ids,
                              snapshot>>
          ELSE IF AttemptsRemain(tasks[t].attempt)
          THEN Continue(t, resp)
          ELSE \E io_ok \in BOOLEAN :
                  Return(t, resp, None, TransientExit(resp), TRUE, io_ok)

\* `None =>` of the match on parse_html_to_record: recorded as missing at
\* once, whatever the attempt.
OnNoDataRetry(t, resp) ==
    IF AttemptsRemain(tasks[t].attempt)
    THEN Continue(t, resp)
    ELSE \E io_ok \in BOOLEAN : Return(t, resp, None, "no_data", TRUE, io_ok)

OnNoData(t, resp) ==
    \E io_ok \in BOOLEAN : Return(t, resp, None, "no_data", TRUE, io_ok)

OnBodyErrorNotRecorded(t, resp) ==
    Return(t, resp, None, "body_error", FALSE, TRUE)

\* `Err(_) =>` of the match on response.text()
OnBodyError(t, resp) ==
    \E io_ok \in BOOLEAN : Return(t, resp, None, "body_error", TRUE, io_ok)

OnRecordNoUrl(t, resp, record) ==
    Return(t, resp, Some([record EXCEPT !.sighting_id = Some(tasks[t].id)]),
           "record", FALSE, TRUE)

OnRecordAlsoMissing(t, resp, record) ==
    \E io_ok \in BOOLEAN :
        Return(t, resp,
               Some([record EXCEPT !.sighting_id = Some(tasks[t].id),
                                   !.url = Some(Url(tasks[t].id))]),
               "record", TRUE, io_ok)

OnRecordUnstamped(t, resp, record) ==
    Return(t, resp, Some([record EXCEPT !.url = Some(Url(tasks[t].id))]),
           "record", FALSE, TRUE)

\* `Some(mut record) =>`: the identifier and the URL are stamped on the
\* record, which is returned.
OnRecord(t, resp, record) ==
    Return(t, resp,
           Some([record EXCEPT !.sighting_id = Some(tasks[t].id),
                               !.url = Some(Url(tasks[t].id))]),
           "record", FALSE, TRUE)

\* response.text().await is over: the body is parsed.
ReadBody(t) ==
    /\ run = "joining"
    /\ tasks[t].pc = "reading"
    /\ \E resp \in {r \in server[tasks[t].id] :
                      r.kind = "http" /\ r.status = tasks[t].last.status} :
          IF resp.body = "unreadable"
          THEN OnBodyError(t, resp)
          ELSE IF ParseHtmlToRecord(resp.body) = None
          THEN OnNoData(t, resp)
          ELSE OnRecord(t, resp, ParseHtmlToRecord(resp.body)[1])

\* join_all is ready: the records are collected and returned.
Join ==
    /\ run = "joining"
    /\ \A t \in TaskIndexes : tasks[t].pc = "done"
    /\ records' = CollectRecords(JoinAll(tasks, finished))
    /\ run' = "returned"
    /\ UNCHANGED <<base_delay, max_retries, max_concurrent, missing_sightings,
                   missing_sightings_file, file, loaded, server, sighting_ids,
                   tasks, permits, progress, finished, failed_ids, snapshot>>

Next ==
    \/ Start
    \/ \E t \in TaskIndexes : Begin(t)
    \/ \E t \in TaskIndexes : Send(t)
    \/ \E t \in TaskIndexes : Respond(t)
    \/ \E t \in TaskIndexes : ReadBody(t)
    \/ Join

Spec == Init /\ [][Next]_vars

SpecWorker == InitWorker /\ [][Next]_vars

\* The end-to-end scenario: five identifiers, 1, 3 and 5 answer with a
\* page that holds a record, 2 answers 404 and 4 fails in transport, on
\* every attempt; max_retries = 2 and the ledger starts empty.
ScenarioIds == <<1, 2, 3, 4, 5>>

ScenarioServer ==
    [i \in 1..5 |->
        IF i \in {1, 3, 5} THEN {Http(200, "record")}
        ELSE IF i = 2 THEN {Http(404, "none")}
        ELSE {TransportError}]

ScenarioConcurrency == 1..6

InitScenario ==
    InitFrom({ScenarioIds}, {<<>>}, {2}, ScenarioConcurrency, BaseDelays,
             ScenarioServer)

SpecScenario == InitScenario /\ [][Next]_vars

\* get_failed_ids applied to a list of identifiers and a list of records
\* (main.rs calls it from its test only).
RecordValues ==
    {[sighting_id |-> None, url |-> None]}
        \cup {[sighting_id |-> Some(i), url |-> Some(Url(i))] : i \in Identifiers}

InitFailedIds ==
    /\ sighting_ids \in SeqsUpTo(Identifiers \cup {3}, MaxIds)
    /\ records \in SeqsUpTo(RecordValues, MaxRecords)
    /\ run = "returned"
    /\ failed_ids = <<>>
    /\ base_delay = 2
    /\ max_retries = 0
    /\ max_concurrent = 1
    /\ missing_sightings = <<>>
    /\ missing_sightings_file = None
    /\ file = <<>>
    /\ loaded = [entries |-> 0, lines |-> 0, result |-> "Ok"]
    /\ snapshot = <<>>
    /\ server = AnyServer
    /\ tasks = <<>>
    /\ permits = 0
    /\ progress = 0
    /\ finished = <<>>

ReportFailed ==
    /\ run = "returned"
    /\ failed_ids' = GetFailedIds(sighting_ids, records)
    /\ run' = "reported"
    /\ UNCHANGED <<base_delay, max_retries, max_concurrent, missing_sightings,
                   missing_sightings_file, file, loaded, server, sighting_ids,
                   tasks, permits, progress, finished, records, snapshot>>

NextFailedIds == ReportFailed

SpecFailedIds == InitFailedIds /\ [][NextFailedIds]_vars

\* --------------------------------------------- the operator and the ledger
\* clear_missing_sightings and get_missing_sightings take &self and lock the
\* ledger's mutex, so a caller can run them between any two steps of a run.
Clear ==
    /\ LET cleared == ClearMissingSightings(missing_sightings, file)
       IN  /\ missing_sightings' = cleared.list
           /\ file' = cleared.file
    /\ UNCHANGED <<base_delay, max_retries, max_concurrent,
                   missing_sightings_file, loaded, server, sighting_ids, run,
                   tasks, permits, progress, finished, snapshot, records,
                   failed_ids>>

Get ==
    /\ snapshot' = GetMissingSightings(missing_sightings)
    /\ UNCHANGED <<base_delay, max_retries, max_concurrent, missing_sightings,
                   missing_sightings_file, file, loaded, server, sighting_ids,
                   run, tasks, permits, progress, finished, records,
                   failed_ids>>

\* Every content of a ledger file of at most MaxLines lines, one or two
\* identifiers to scrape, no retry.
InitLedger ==
    InitFrom({<<1>>, <<2, 1>>}, SeqsUpTo(LineValues, MaxLines), {0}, {1, 2},
             {2}, PipelineServer)

NextLedger == Next \/ Clear \/ Get

SpecLedger == InitLedger /\ [][NextLedger]_vars

\* ================================================================ claims
\* What the ledger held when the run started, and what the run added.
InitialLedger == SubSeq(missing_sightings, 1, loaded.entries)
Inserted == SubSeq(missing_sightings, loaded.entries + 1, Len(missing_sightings))
Appended == SubSeq(file, loaded.lines + 1, Len(file))
\* The lines the file held when it was loaded (lines are only ever added
\* after them).
StartFile == SubSeq(file, 1, loaded.lines)
IsPrefix(a, b) == Len(a) <= Len(b) /\ SubSeq(b, 1, Len(a)) = a
Started == run # "ready"
Done(t) == tasks[t].pc = "done"

\* The request of the task's last attempt ended in a transient failure: a
\* transport error or a status outside 200..299 (429 included).
EndedTransient(task) ==
    \/ task.last.kind = "error"
    \/ task.last.kind = "http" /\ (task.last.status < 200 \/ task.last.status > 299)

\* C1: at every moment of scrape_multiple_sightings the number of Fetch
\* Worker invocations that hold a slot (from the acquire to the completion
\* of the task: the delays and every attempt included) is at most
\* max_concurrent, the free permits are never negative, and with
\* max_concurrent = 1 no two tasks are in their fetch protocol together.
C1_SlotsBounded ==
    Started =>
        /\ Cardinality(Active) <= max_concurrent
        /\ permits >= 0
        /\ permits + Cardinality(Active) = max_concurrent
        /\ \A t \in TaskIndexes :
              tasks[t].pc \in {"sleeping", "fetching", "reading"} => t \in Active
        /\ max_concurrent = 1 => \A a, b \in Active : a = b

\* C1 witness: every slot is taken, one holder is in a retry, and a task
\* is waiting for a slot.
C1_Witness ==
    /\ run = "joining"
    /\ max_concurrent >= 1
    /\ Cardinality(Active) = max_concurrent
    /\ Waiting(tasks) # {}
    /\ \E t \in Active : tasks[t].pc = "fetching" /\ tasks[t].attempt >= 1

\* C2: a task never sends more than max_retries + 1 requests; a task whose
\* last request ended in a transient failure and that has returned sent
\* exactly max_retries + 1 requests, returned None and is in the ledger; and
\* no task calls add_missing_sighting before it returns, so an identifier is
\* not added by its task while attempts remain.
C2_TransientFetchedRPlusOne ==
    \A t \in TaskIndexes :
        /\ tasks[t].fetches <= max_retries + 1
        /\ ~Done(t) => tasks[t].adds = 0
        /\ (Done(t) /\ EndedTransient(tasks[t])) =>
              /\ tasks[t].fetches = max_retries + 1
              /\ tasks[t].attempt = max_retries
              /\ tasks[t].result = None
              /\ tasks[t].adds = 1
              /\ Contains(missing_sightings, tasks[t].id)

\* C2 witness: with the largest retry budget, a task has returned after a
\* rate-limited last attempt.
C2_Witness ==
    /\ max_retries = MaxRetries
    /\ \E t \in TaskIndexes :
          /\ Done(t)
          /\ tasks[t].last = Http(429, "none")
          /\ tasks[t].fetches = MaxRetries + 1

\* C3: a task that is reading the body of a success response makes one
\* more step only, its return, on the same attempt and with no further
\* request; when the body cannot be read or holds no record the task
\* returns None and its identifier is in the ledger, whatever the retry
\* budget left.
C3_ExtractionFailureIsTerminal ==
    [][\A t \in TaskIndexes :
          (tasks[t].pc = "reading" /\ tasks'[t] # tasks[t]) =>
              /\ tasks'[t].pc = "done"
              /\ tasks'[t].attempt = tasks[t].attempt
              /\ tasks'[t].fetches = tasks[t].fetches
              /\ tasks'[t].fetches = tasks[t].attempt + 1
              /\ tasks'[t].last.body \in {"no_rows", "unreadable"} =>
                    /\ tasks'[t].result = None
                    /\ tasks'[t].adds = 1
                    /\ Contains(missing_sightings', tasks[t].id)]_vars

\* C3 witness: a first attempt got a success status with no record in the
\* body while retries remained; the task is done after one request.
C3_Witness ==
    \E t \in TaskIndexes :
        /\ Done(t)
        /\ tasks[t].last.kind = "http"
        /\ tasks[t].last.body = "no_rows"
        /\ tasks[t].attempt = 0
        /\ tasks[t].fetches = 1
        /\ max_retries >= 1
        /\ tasks[t].result = None
        /\ Contains(missing_sightings, tasks[t].id)

\* The identifiers of ids that are not in list, in the order of ids.
RECURSIVE Without(_, _)
Without(ids, list) ==
    IF ids = <<>> THEN <<>>
    ELSE (IF Contains(list, Head(ids)) THEN <<>> ELSE <<Head(ids)>>)
             \o Without(Tail(ids), list)

\* C4: once the run has started, the dispatched identifiers are the input
\* identifiers that were not in the ledger at the start, in input order;
\* no task exists, and so no request is made, for an identifier that was
\* in the ledger at the start.
C4_LedgerIdsNotDispatched ==
    Started =>
        /\ [t \in TaskIndexes |-> tasks[t].id] = Without(sighting_ids, InitialLedger)
        /\ \A t \in TaskIndexes : ~Contains(InitialLedger, tasks[t].id)
        /\ \A i \in 1..Len(sighting_ids) :
              Contains(InitialLedger, sighting_ids[i]) =>
                  \A t \in TaskIndexes :
                      tasks[t].id = sighting_ids[i] => tasks[t].fetches = 0

\* C4 witness: the run returned, an input identifier was in the ledger at
\* the start, and another one was dispatched and fetched.
C4_Witness ==
    /\ run = "returned"
    /\ \E i \in 1..Len(sighting_ids) : Contains(InitialLedger, sighting_ids[i])
    /\ \E t \in TaskIndexes : tasks[t].fetches > 0
    /\ Len(tasks) < Len(sighting_ids)

\* C5: if the ledger had no duplicate at the start it has none in any
\* state of the run, whatever the interleaving of the workers' adds; and
\* every task that called add_missing_sighting has its identifier in the
\* ledger, as has every identifier that was there at the start.
C5_LedgerUniqueNoLostEntry ==
    /\ NoDuplicates(InitialLedger) => NoDuplicates(missing_sightings)
    /\ NoDuplicates(Inserted)
    /\ \A i \in 1..Len(Inserted) : ~Contains(InitialLedger, Inserted[i])
    /\ \A t \in TaskIndexes :
          tasks[t].adds > 0 => Contains(missing_sightings, tasks[t].id)

\* C5 witness: two workers that ran side by side for the same identifier
\* both called add_missing_sighting, the later task first; the ledger holds
\* the identifier once.
C5_Witness ==
    /\ Len(tasks) >= 2
    /\ tasks[1].id = tasks[2].id
    /\ tasks[1].adds = 1
    /\ tasks[2].adds = 1
    /\ finished = <<2, 1>>
    /\ NoDuplicates(InitialLedger)
    /\ Inserted = <<tasks[1].id>>

RECURSIVE IsSubsequence(_, _)
IsSubsequence(a, b) ==
    IF a = <<>> THEN TRUE
    ELSE IF b = <<>> THEN FALSE
    ELSE IF Head(a) = Head(b) THEN IsSubsequence(Tail(a), Tail(b))
    ELSE IsSubsequence(a, Tail(b))

\* C6: the lines appended to the ledger file during the run hold each
\* identifier at most once, none of them is an identifier that was in the
\* ledger already, they follow the order in which the identifiers were
\* inserted in memory, and nothing is appended when no file is configured.
C6_AppendOncePerIdentifierInOrder ==
    /\ NoDuplicates(Appended)
    /\ \A i \in 1..Len(Appended) : ~Contains(InitialLedger, Appended[i])
    /\ IsSubsequence(Appended, Inserted)
    /\ missing_sightings_file = None => Appended = <<>>

\* C6 witness: two workers of the same identifier both called
\* add_missing_sighting with a file configured, and the file got one line.
C6_Witness ==
    /\ missing_sightings_file # None
    /\ Len(tasks) >= 2
    /\ tasks[1].id = tasks[2].id
    /\ tasks[1].adds = 1
    /\ tasks[2].adds = 1
    /\ Appended = <<tasks[1].id>>

\* C7 (the claim as stated): with a ledger file configured, when the run
\* returns every identifier inserted in memory during the run has a line in
\* the file, whether the append succeeded or failed.
C7_InsertedIsDurable ==
    (run = "returned" /\ missing_sightings_file # None) =>
        \A i \in 1..Len(Inserted) : Contains(file, Inserted[i])

Succeeded == {t \in TaskIndexes : tasks[t].result # None}

\* C8 (the claim as stated): the returned records are in the order in
\* which their tasks completed.
C8_RecordsInCompletionOrder ==
    run = "returned" =>
        records = CollectRecords([i \in 1..Len(finished) |->
                                     tasks[finished[i]].result])

\* C8 (amended): the returned records are the records of the successful
\* tasks in the order of the dispatched identifiers (the input order),
\* whatever the order in which the tasks completed.
C8_RecordsInDispatchOrder ==
    run = "returned" =>
        /\ Len(records) = Cardinality(Succeeded)
        /\ \A t \in Succeeded :
              records[Cardinality({u \in Succeeded : u <= t})] = tasks[t].result[1]

\* C8 witness: two tasks of different identifiers succeeded, the later one
\* completed first, and the run returned.
C8_Witness ==
    /\ run = "returned"
    /\ \E a, b \in Succeeded :
          /\ a < b
          /\ tasks[a].id # tasks[b].id
          /\ \E i, j \in 1..Len(finished) :
                i < j /\ finished[i] = b /\ finished[j] = a

\* Whether id is the sighting_id of a record of the list.
IsScraped(id, scraped_records) ==
    \E i \in 1..Len(scraped_records) : scraped_records[i].sighting_id = Some(id)

RECURSIVE NotScraped(_, _)
NotScraped(ids, scraped_records) ==
    IF ids = <<>> THEN <<>>
    ELSE (IF IsScraped(Head(ids), scraped_records) THEN <<>> ELSE <<Head(ids)>>)
             \o NotScraped(Tail(ids), scraped_records)

\* C9: get_failed_ids(S, R) is the subsequence of S of the identifiers
\* that are the sighting_id of no record of R, in the order of S: a record
\* whose sighting_id is None matches nothing and a repeated identifier of S
\* is kept as often as it occurs.
C9_FailedIdsIsOrderedDifference ==
    run = "reported" =>
        /\ failed_ids = NotScraped(sighting_ids, records)
        /\ IsSubsequence(failed_ids, sighting_ids)
        /\ \A i \in 1..Len(failed_ids) : ~IsScraped(failed_ids[i], records)
        /\ \A id \in Identifiers \cup {3} :
              ~IsScraped(id, records) =>
                  Cardinality({i \in 1..Len(failed_ids) : failed_ids[i] = id})
                      = Cardinality({i \in 1..Len(sighting_ids) :
                                        sighting_ids[i] = id})

\* C9 witness: S repeats an identifier that no record holds, R holds a
\* record without identifier and a record of another identifier.
C9_Witness ==
    /\ run = "reported"
    /\ sighting_ids = <<1, 1>>
    /\ Len(records) = 2
    /\ records[1].sighting_id = None
    /\ records[2].sighting_id = Some(2)
    /\ failed_ids = <<1, 1>>

RecordIds == {records[i].sighting_id : i \in 1..Len(records)}

\* C10: in the scenario, for every max_concurrent of ScenarioConcurrency
\* and every interleaving, the run returns one record for each of 1, 3
\* and 5 and no other, the ledger ends holding 2 and 4 and nothing else,
\* and get_failed_ids of the input and the records is <<2, 4>>.
C10_ScenarioOutcome ==
    run = "returned" =>
        /\ Len(records) = 3
        /\ RecordIds = {Some(1), Some(3), Some(5)}
        /\ Len(missing_sightings) = 2
        /\ {missing_sightings[i] : i \in 1..Len(missing_sightings)} = {2, 4}
        /\ GetFailedIds(sighting_ids, records) = <<2, 4>>

\* C10 witness: the scenario's run returned with all five workers admitted
\* at once, identifier 4 having reached the ledger before identifier 2.
C10_Witness ==
    /\ run = "returned"
    /\ sighting_ids = ScenarioIds
    /\ max_concurrent = 5
    /\ max_retries = 2
    /\ missing_sightings = <<4, 2>>
    /\ tasks[2].fetches = 3
    /\ tasks[4].fetches = 3

\* C11: every record of the returned list carries Some(i) as sighting_id
\* and the URL of i, where i is the identifier of the task that produced
\* the record; no returned record has sighting_id = None.
C11_ReturnedRecordsAreStamped ==
    run = "returned" =>
        /\ \A k \in 1..Len(records) :
              /\ records[k].sighting_id # None
              /\ records[k].url # None
              /\ records[k].url = Some(Url(records[k].sighting_id[1]))
              /\ \E t \in Succeeded :
                    /\ tasks[t].result = Some(records[k])
                    /\ records[k].sighting_id = Some(tasks[t].id)
        /\ \A t \in Succeeded :
              /\ tasks[t].result[1].sighting_id = Some(tasks[t].id)
              /\ tasks[t].result[1].url = Some(Url(tasks[t].id))

\* C11 witness: the run returned two records, of two identifiers.
C11_Witness ==
    /\ run = "returned"
    /\ Len(records) = 2
    /\ records[1].sighting_id # records[2].sighting_id
    /\ records[1].url = Some(Url(tasks[1].id))

\* C12: the step that ends the reading of a success response whose body
\* holds a record returns Some(record) for the task's identifier on that
\* same attempt: the task is done, it sent attempt + 1 requests and sends
\* no more, it never called add_missing_sighting, and the ledger is left
\* as it was, also when earlier attempts failed.
C12_SuccessReturnsAtOnce ==
    [][\A t \in TaskIndexes :
          (tasks[t].pc = "reading" /\ tasks'[t] # tasks[t]) =>
              /\ tasks'[t].pc = "done"
              /\ tasks'[t].last.body = "record" =>
                    /\ tasks'[t].result # None
                    /\ tasks'[t].result[1].sighting_id = Some(tasks[t].id)
                    /\ tasks'[t].attempt = tasks[t].attempt
                    /\ tasks'[t].fetches = tasks[t].attempt + 1
                    /\ tasks'[t].adds = 0
                    /\ missing_sightings' = missing_sightings
                    /\ file' = file]_vars

\* C12 witness: a task returned a record on a retry, after a failed first
\* attempt, with retries still left; its identifier is not in the ledger.
C12_Witness ==
    \E t \in TaskIndexes :
        /\ Done(t)
        /\ tasks[t].result # None
        /\ tasks[t].attempt = 1
        /\ tasks[t].fetches = 2
        /\ max_retries >= 2
        /\ tasks[t].adds = 0
        /\ ~Contains(missing_sightings, tasks[t].id)

\* C13: when the ledger file that was loaded holds a line that is not an
\* unsigned integer, load_missing_sightings returned Err.
C13_MalformedLineFailsLoad ==
    (/\ missing_sightings_file # None
     /\ \E i \in 1..Len(StartFile) : StartFile[i] = Malformed)
        => loaded.result = "Err"

\* C14: after a load that returned Err the run is not started: no
\* identifier is dispatched and no request is sent.
C14_FailedLoadAbortsRun ==
    loaded.result = "Err" =>
        /\ run = "ready"
        /\ tasks = <<>>
        /\ \A t \in TaskIndexes : tasks[t].fetches = 0

\* C19: the in-memory ledger holds no identifier twice in any state, the
\* state right after load included, and neither does a list returned by
\* get_missing_sightings.
C19_LedgerUniqueAfterLoad ==
    /\ NoDuplicates(missing_sightings)
    /\ NoDuplicates(snapshot)

\* C20: every step leaves the lines of the file in place and adds at most
\* one line at the end; a line is added only by the step that pushes that
\* identifier to the in-memory ledger; filtering (Start), get and clear
\* leave the file as it is; clear empties the in-memory list; every step
\* other than a clear keeps the entries of the in-memory ledger.
C20_FileIsAppendOnly ==
    [][/\ IsPrefix(file, file')
       /\ Len(file') <= Len(file) + 1
       /\ file' # file =>
             /\ missing_sightings_file # None
             /\ ~Contains(missing_sightings, file'[Len(file')])
             /\ missing_sightings' =
                    Append(missing_sightings, file'[Len(file')])
       /\ (Start \/ Get \/ Clear) => file' = file
       /\ (Start \/ Get) => missing_sightings' = missing_sightings
       /\ Clear => missing_sightings' = <<>>
       /\ ~Clear => IsPrefix(missing_sightings, missing_sightings')]_vars

\* C20 witness: a run added an identifier and its line, the ledger was read
\* and then cleared: the in-memory list is empty and the file holds more
\* lines than were loaded.
C20_Witness ==
    /\ missing_sightings = <<>>
    /\ snapshot # <<>>
    /\ loaded.lines > 0
    /\ Len(file) > loaded.lines
    /\ Contains(snapshot, file[Len(file)])

\* The tasks that are done in a list of tasks.
DoneIn(ts) == {t \in DOMAIN ts : ts[t].pc = "done"}

\* C16: the progress position is the number of completed tasks in every
\* state; a step never lowers it and raises it by the number of tasks the
\* step completes (one, whether the task returned a record or None); when
\* the run has returned it is the number of dispatched identifiers, which
\* are the input identifiers that were not in the ledger.
C16_ProgressCountsCompletedTasks ==
    /\ [](/\ progress = Cardinality(DoneIn(tasks))
          /\ progress = Len(finished)
          /\ run = "returned" =>
                /\ progress = Len(tasks)
                /\ progress = Len(Without(sighting_ids, InitialLedger)))
    /\ [][/\ progress' >= progress
          /\ progress' - progress = Cardinality(DoneIn(tasks') \ DoneIn(tasks))
          /\ progress' - progress <= 1]_vars

\* C16 witness: the run returned with one task that produced a record and
\* one that returned None.
C16_Witness ==
    /\ run = "returned"
    /\ progress = 2
    /\ \E t, u \in TaskIndexes : tasks[t].result # None /\ tasks[u].result = None

\* C17: when the run has returned over distinct input identifiers, every
\* dispatched identifier was processed (its task sent a request and is
\* done, whatever happened to the other tasks) and is in exactly one of
\* the returned records and the ledger.
C17_RecordOrLedgerNeverBoth ==
    (run = "returned" /\ NoDuplicates(sighting_ids)) =>
        \A t \in TaskIndexes :
            /\ Done(t)
            /\ tasks[t].fetches >= 1
            /\ IsScraped(tasks[t].id, records)
                  # Contains(missing_sightings, tasks[t].id)
            /\ IsScraped(tasks[t].id, records) <=> tasks[t].result # None

\* C17 witness: the first dispatched identifier failed and is in the
\* ledger, the second was fetched after that and is in the records.
C17_Witness ==
    /\ run = "returned"
    /\ Len(tasks) = 2
    /\ finished = <<1, 2>>
    /\ tasks[1].result = None
    /\ Contains(missing_sightings, tasks[1].id)
    /\ IsScraped(tasks[2].id, records)
    /\ ~Contains(missing_sightings, tasks[2].id)

\* C18: the delay before every attempt is computed without a panic, for
\* every base_delay of BaseDelays (0 and 1 included): before attempt 0 it
\* is in [base_delay, base_delay + base_delay / 2], before attempt k >= 1
\* in [2^k * base_delay, 2^k * base_delay + base_delay].
C18_DelayDefinedAndInRange ==
    /\ run # "panicked"
    /\ \A t \in TaskIndexes :
          tasks[t].pc = "sleeping" =>
              LET k == tasks[t].attempt
                  low == IF k = 0 THEN base_delay ELSE Pow2(k) * base_delay
                  width == IF k = 0 THEN base_delay \div 2 ELSE base_delay
              IN  /\ low <= tasks[t].sleep_ms
                  /\ tasks[t].sleep_ms <= low + width

\* C15: with max_concurrent >= 1, until the run has returned some step of
\* the run can be taken (no task waits for ever for a slot or for its
\* completion, and the run is not cut short); a completed task holds no
\* slot; when the run has returned every dispatched task is done and all
\* max_concurrent slots are free.
C15_NoSlotLeakedRunReturns ==
    max_concurrent >= 1 =>
        /\ run # "returned" => ENABLED Next
        /\ \A t \in TaskIndexes : Done(t) => ~HoldsPermit(tasks[t])
        /\ run = "returned" =>
              /\ \A t \in TaskIndexes : Done(t)
              /\ permits = max_concurrent

\* C21: with max_concurrent = 0 and at least one dispatched identifier,
\* every task waits for a slot in every state after the dispatch: no
\* request was sent, the progress position is 0, the run has not returned
\* and no step of the run can be taken.  With no dispatched identifier,
\* for every max_concurrent, the only step after the dispatch is the
\* return, and the returned list is empty.
C21_NoSlotNoProgressNoReturn ==
    /\ (max_concurrent = 0 /\ Started /\ tasks # <<>>) =>
          /\ run = "joining"
          /\ \A t \in TaskIndexes :
                /\ tasks[t].pc = "waiting"
                /\ tasks[t].fetches = 0
          /\ Active = {}
          /\ progress = 0
          /\ finished = <<>>
          /\ ~ENABLED Next
    /\ (Started /\ tasks = <<>>) =>
          /\ progress = 0
          /\ \/ run = "joining" /\ ENABLED Join
             \/ run = "returned" /\ records = <<>>

\* C21 witness: two identifiers were dispatched with max_concurrent = 0.
C21_Witness ==
    /\ max_concurrent = 0
    /\ run = "joining"
    /\ Len(tasks) = 2
    /\ \A t \in TaskIndexes : tasks[t].pc = "waiting"

\* C22: no task ever leaves scrape_sighting_page through the code after
\* the loop; a task that has not returned has made no call of
\* add_missing_sighting, one that returned None has made exactly one and
\* one that returned Some has made none; and the step that ends the
\* request or the read of the last attempt (attempt = max_retries) ends
\* the task or passes to the read of the body, it never starts another
\* round.
C22_LastAttemptReturnsInLoop ==
    /\ [](\A t \in TaskIndexes :
             /\ tasks[t].exit # "after_loop"
             /\ tasks[t].attempt <= max_retries
             /\ ~Done(t) => tasks[t].adds = 0 /\ tasks[t].result = None
             /\ (Done(t) /\ tasks[t].result = None) => tasks[t].adds = 1
             /\ (Done(t) /\ tasks[t].result # None) => tasks[t].adds = 0)
    /\ [][\A t \in TaskIndexes :
             (/\ tasks[t].pc \in {"fetching", "reading"}
              /\ tasks[t].attempt = max_retries
              /\ tasks'[t] # tasks[t]) =>
                 /\ tasks'[t].attempt = max_retries
                 /\ \/ tasks[t].pc = "fetching" /\ tasks'[t].pc = "reading"
                    \/ /\ tasks'[t].pc = "done"
                       /\ tasks'[t].exit \in {"record", "no_data", "body_error",
                                              "rate_limited", "http_error",
                                              "request_failed"}]_vars

\* C22 witness: a task used every attempt of a budget of two retries and
\* its last request failed: it returned None from inside the loop after
\* one call of add_missing_sighting.
C22_Witness ==
    \E t \in TaskIndexes :
        /\ Done(t)
        /\ max_retries = 2
        /\ tasks[t].attempt = max_retries
        /\ tasks[t].fetches = max_retries + 1
        /\ tasks[t].exit \in {"rate_limited", "http_error", "request_failed"}
        /\ tasks[t].result = None
        /\ tasks[t].adds = 1

====
